---------------------------- MODULE Spec2Model ----------------------------
(***************************************************************************)
(* Model of the Whispering Woods dashboards: the six CSV dashboard scripts *)
(* app, app_weather, app_wind, app_wind_icon, app_wind_text and            *)
(* app_wind_static.  Every script run ("render") loads the dataset through *)
(* a memoized load_data, reads the date slider, filters the rows of the    *)
(* selected date, and either shows the "no data" message or classifies     *)
(* NDVI, computes the wind overlay, draws the layers and the statistics.   *)
(*                                                                         *)
(* Floating point values are fixed point integers: NDVI in 1/NdviScale,    *)
(* wind directions in 1/DegScale of a degree, sines in 1/TrigScale,        *)
(* matplotlib colour channels in 1/ColorScale.  A Python value is a record *)
(* [kind, v]: a number, NaN, an infinity, a string or None.                *)
(***************************************************************************)
EXTENDS Integers, Sequences, FiniteSets, TLC

VARIABLES
    variant,        \* which of the six scripts this process runs
    source,         \* the rows of the CSV file on disk
    cache,          \* st.cache_data entry of load_data: <<>> or <<frame>>
    loads,          \* number of pd.read_csv calls made so far
    renders,        \* number of script runs made so far
    filterRuns,     \* number of times the filter line has been evaluated
    selected_date,  \* value of the date slider in the last run
    out,            \* what the last run produced
    call            \* the last direct call of a pure function (SpecPure)

vars == <<variant, source, cache, loads, renders, filterRuns, selected_date, out, call>>

-----------------------------------------------------------------------------
(* Bounds of the model.                                                    *)

MaxNdvi == 150
MaxDir == 800
MaxSpeed == 11
MaxDay == 3
MaxRows == 2
MaxRenders == 2

(* Fixed point scales: units per 1.0 of NDVI, per degree, per 1.0 of a     *)
(* sine, per 1.0 of a matplotlib colour channel; Timestamp ticks per day.  *)
NdviScale == 100
DegScale == 2
TrigScale == 1000
ColorScale == 100
TicksPerDay == 2

Variants == {"app", "app_weather", "app_wind", "app_wind_icon", "app_wind_text", "app_wind_static"}

-----------------------------------------------------------------------------
(* Python values and the outcome of a Python call.                         *)

Num(n) == [kind |-> "num", v |-> n]
NaN == [kind |-> "nan", v |-> 0]
Inf(s) == [kind |-> "inf", v |-> s]
Str == [kind |-> "str", v |-> 0]
None == [kind |-> "none", v |-> 0]

Ok(x) == [raised |-> "none", value |-> x]
Raise(e) == [raised |-> e, value |-> <<>>]

(* n > c for a float literal c: a str or None operand raises TypeError,    *)
(* every comparison with NaN is False.                                     *)
PyGt(n, c) ==
    CASE n.kind \in {"str", "none"} -> Raise("TypeError")
      [] n.kind = "nan" -> Ok(FALSE)
      [] n.kind = "inf" -> Ok(n.v > 0)
      [] OTHER -> Ok(n.v > c)

-----------------------------------------------------------------------------
(* ndvi_color: the three marker colours of each script.                    *)

green(vr) == IF vr = "app_wind_static" THEN <<0, (8 * ColorScale) \div 10, 0>> ELSE <<0, 128, 0>>
orange(vr) == IF vr = "app_wind_static" THEN <<ColorScale, (65 * ColorScale) \div 100, 0>> ELSE <<255, 165, 0>>
red(vr) == IF vr = "app_wind_static" THEN <<ColorScale, 0, 0>> ELSE <<255, 0, 0>>

ndvi_color_ge(vr, n) ==
    LET c1 == PyGt(n, (6 * NdviScale) \div 10 - 1)
        c2 == PyGt(n, (4 * NdviScale) \div 10 - 1)
    IN  IF c1.raised # "none" THEN Raise(c1.raised)
        ELSE IF c1.value THEN Ok(green(vr))
        ELSE IF c2.raised # "none" THEN Raise(c2.raised)
        ELSE IF c2.value THEN Ok(orange(vr))
        ELSE Ok(red(vr))

ndvi_color(vr, n) ==
    LET c1 == PyGt(n, (6 * NdviScale) \div 10)
    IN  IF c1.raised # "none" THEN Raise(c1.raised)
        ELSE IF c1.value THEN Ok(green(vr))
        ELSE LET c2 == PyGt(n, (4 * NdviScale) \div 10)
             IN  IF c2.raised # "none" THEN Raise(c2.raised)
                 ELSE IF c2.value THEN Ok(orange(vr))
                 ELSE Ok(red(vr))

-----------------------------------------------------------------------------
(* arrow_from_direction of app_wind_text.                                  *)

dirs == <<"up", "up-right", "right", "down-right", "down", "down-left", "left", "up-left">>

(* deg % 360: Python's float modulo has the sign of the divisor; inf and   *)
(* NaN give NaN; a str (string formatting) or None raises TypeError.       *)
PyMod360(deg) ==
    CASE deg.kind \in {"str", "none"} -> Raise("TypeError")
      [] deg.kind \in {"nan", "inf"} -> Ok(NaN)
      [] OTHER -> Ok(Num(deg.v % (360 * DegScale)))

(* int(m / 45.0 + 0.5): int() of NaN raises ValueError; m >= 0, so the     *)
(* truncation is a floor.  m/(45 DegScale) + 1/2 = (2m + 45 DegScale) /    *)
(* (90 DegScale).                                                          *)
PyIntSector(m) ==
    IF m.kind = "nan" THEN Raise("ValueError")
    ELSE Ok((2 * m.v + 45 * DegScale) \div (90 * DegScale))

arrow_body_trunc(deg) ==
    LET m == PyMod360(deg)
    IN  IF m.raised # "none" THEN Raise(m.raised)
        ELSE IF m.value.kind = "nan" THEN Raise("ValueError")
        ELSE Ok(dirs[((m.value.v \div (45 * DegScale)) % 8) + 1])

(* The body of the try block.                                              *)
arrow_body(deg) ==
    LET m == PyMod360(deg)
    IN  IF m.raised # "none" THEN Raise(m.raised)
        ELSE LET i == PyIntSector(m.value)
             IN  IF i.raised # "none" THEN Raise(i.raised)
                 ELSE Ok(dirs[(i.value % 8) + 1])

arrow_from_direction_noexcept(deg) == arrow_body(deg)

(* try: ... except: return ''                                              *)
arrow_from_direction(deg) ==
    LET r == arrow_body(deg)
    IN  IF r.raised # "none" THEN Ok("") ELSE r

-----------------------------------------------------------------------------
(* Wind vectors of app_wind (map offset) and app_wind_static (quiver).     *)

(* scale = 0.0005, in 1/10000.  Positions and offsets are in units of      *)
(* 1/(10000 * TrigScale) degree.                                           *)
scale == 5

(* math.radians / np.radians: theta keeps the value of deg, its unit being *)
(* pi/(180 DegScale) rad.  A str or None raises TypeError.                 *)
radians(deg) ==
    IF deg.kind \in {"str", "none"} THEN Raise("TypeError") ELSE Ok(deg)

(* 1000 sin of 0, 22.5, 45, 67.5 and 90 degrees, to the nearest unit.      *)
SinTable == <<0, 383, 707, 924, 1000>>

(* sine of an angle on the 22.5 degree grid, by quadrant.                  *)
SinGrid(a) ==
    LET k == (a % (360 * DegScale)) \div ((45 * DegScale) \div 2)
    IN  CASE k <= 4 -> SinTable[k + 1]
          [] k <= 8 -> SinTable[8 - k + 1]
          [] k <= 12 -> 0 - SinTable[k - 8 + 1]
          [] OTHER -> 0 - SinTable[16 - k + 1]

(* math.sin: NaN gives NaN, an infinity raises ValueError (math domain     *)
(* error); np.sin gives NaN for an infinity.                               *)
sin(x, numpy) ==
    CASE x.kind = "nan" -> Ok(NaN)
      [] x.kind = "inf" -> IF numpy THEN Ok(NaN) ELSE Raise("ValueError")
      [] OTHER -> Ok(Num(SinGrid(x.v)))

cos(x, numpy) ==
    CASE x.kind = "nan" -> Ok(NaN)
      [] x.kind = "inf" -> IF numpy THEN Ok(NaN) ELSE Raise("ValueError")
      [] OTHER -> Ok(Num(SinGrid(x.v + 90 * DegScale)))

(* float arithmetic with NaN propagation                                   *)
FMul(a, b) == IF a.kind = "nan" \/ b.kind = "nan" THEN NaN ELSE Num(a.v * b.v)
FAdd(a, b) == IF a.kind = "nan" \/ b.kind = "nan" THEN NaN ELSE Num(a.v + b.v)

(* lon + WindSpeed * scale * sin(theta)                                    *)
end_lon_swapped(lon, WindSpeed, WindDirection) ==
    LET th == radians(WindDirection)
    IN  IF th.raised # "none" THEN Raise(th.raised)
        ELSE LET s == cos(th.value, FALSE)
             IN  IF s.raised # "none" THEN Raise(s.raised)
                 ELSE Ok(FAdd(Num(lon), FMul(Num(WindSpeed * scale), s.value)))

end_lon(lon, WindSpeed, WindDirection) ==
    LET th == radians(WindDirection)
    IN  IF th.raised # "none" THEN Raise(th.raised)
        ELSE LET s == sin(th.value, FALSE)
             IN  IF s.raised # "none" THEN Raise(s.raised)
                 ELSE Ok(FAdd(Num(lon), FMul(Num(WindSpeed * scale), s.value)))

(* lat + WindSpeed * scale * cos(theta)                                    *)
end_lat(lat, WindSpeed, WindDirection) ==
    LET th == radians(WindDirection)
    IN  IF th.raised # "none" THEN Raise(th.raised)
        ELSE LET c == cos(th.value, FALSE)
             IN  IF c.raised # "none" THEN Raise(c.raised)
                 ELSE Ok(FAdd(Num(lat), FMul(Num(WindSpeed * scale), c.value)))

quiver_u_compass(WindSpeed, WindDirection) ==
    LET th == radians(WindDirection)
    IN  IF th.raised # "none" THEN Raise(th.raised)
        ELSE Ok(FMul(Num(WindSpeed), sin(th.value, TRUE).value))

(* u = WindSpeed * np.cos(theta), v = WindSpeed * np.sin(theta)            *)
quiver_u(WindSpeed, WindDirection) ==
    LET th == radians(WindDirection)
    IN  IF th.raised # "none" THEN Raise(th.raised)
        ELSE Ok(FMul(Num(WindSpeed), cos(th.value, TRUE).value))

quiver_v(WindSpeed, WindDirection) ==
    LET th == radians(WindDirection)
    IN  IF th.raised # "none" THEN Raise(th.raised)
        ELSE Ok(FMul(Num(WindSpeed), sin(th.value, TRUE).value))

-----------------------------------------------------------------------------
(* The dataset: the CSV file, pd.read_csv, pd.to_datetime.                 *)

(* Cells of the NDVI and WindDirection columns as the file holds them:     *)
(* numeric text, an empty cell, or text that is no number.                 *)
NdviCells == {Num((7 * NdviScale) \div 10), Str}
DirCells == {Num(90 * DegScale), NaN}

(* A row of the file; its date is the text <<day, time of day>>.           *)
Rows ==
    [date : (1..MaxDay) \X (0..(TicksPerDay - 1)), NDVI : NdviCells,
     WindSpeed : {10}, WindDirection : DirCells, lat : {476000000}, lon : {129700000},
     NDWI : {Num(NdviScale \div 5)}, EVI : {Num(NdviScale \div 2)}]

Sources == UNION {[1..n -> Rows] : n \in 1..MaxRows}

(* pd.read_csv infers a column's dtype: an empty cell is NaN; one cell     *)
(* that is no number makes the column object, its numbers staying text.    *)
InferCell(cell, column) ==
    IF cell.kind = "num" /\ \E c \in column : c.kind = "str" THEN [cell EXCEPT !.kind = "str"] ELSE cell

read_csv(src) ==
    [i \in DOMAIN src |->
        [src[i] EXCEPT !.NDVI = InferCell(@, {src[j].NDVI : j \in DOMAIN src}),
                       !.WindDirection = InferCell(@, {src[j].WindDirection : j \in DOMAIN src})]]

(* pd.to_datetime: date text to a Timestamp, in ticks.                     *)
to_datetime(d) == d[1] * TicksPerDay + d[2]

parse_dates(frame) == [i \in DOMAIN frame |-> [frame[i] EXCEPT !.date = to_datetime(@)]]

(* Timestamp.date() / Series.dt.date: the calendar date of a Timestamp.    *)
dt_date(ts) == ts \div TicksPerDay

(* pd.to_datetime(selected_date): midnight of a calendar date.             *)
date_to_datetime(d) == d * TicksPerDay

(* load_data: app and app_weather return the frame with its date text,     *)
(* the wind scripts parse the dates inside.                                *)
load_data(vr, src) ==
    IF vr \in {"app", "app_weather"} THEN read_csv(src) ELSE parse_dates(read_csv(src))

(* @st.cache_data without ttl or max_entries: the first call runs          *)
(* load_data and stores its value, every later call returns a copy of the  *)
(* stored value, so the script's df['date'] = ... never reaches the store. *)
(* reads counts the runs of pd.read_csv.                                   *)
cache_data_nomemo(c, vr, src) ==
    [frame |-> load_data(vr, src), cache |-> <<>>, reads |-> 1]

(* The store handing out the stored object itself, the 'color' column of   *)
(* the script landing in it.                                               *)
WithColor(vr, row) ==
    [f \in DOMAIN row \cup {"color"} |-> IF f = "color" THEN ndvi_color(vr, row.NDVI).value ELSE row[f]]

cache_data_shared(c, vr, src) ==
    IF c # <<>> THEN [frame |-> c[1], cache |-> c, reads |-> 0]
    ELSE [frame |-> load_data(vr, src),
          cache |-> <<[i \in DOMAIN src |-> WithColor(vr, load_data(vr, src)[i])]>>,
          reads |-> 1]

cache_data(c, vr, src) ==
    IF c # <<>> THEN [frame |-> c[1], cache |-> c, reads |-> 0]
    ELSE [frame |-> load_data(vr, src), cache |-> <<load_data(vr, src)>>, reads |-> 1]

(* df as the script sees it after its load lines.                          *)
script_df(vr, loaded) ==
    IF vr \in {"app", "app_weather"} THEN parse_dates(loaded) ELSE loaded

SetMin(S) == CHOOSE x \in S : \A y \in S : x <= y
SetMax(S) == CHOOSE x \in S : \A y \in S : x >= y

(* The slider: its range and its default value.                            *)
min_value(df) == dt_date(SetMin({df[i].date : i \in DOMAIN df}))
max_value(df) == dt_date(SetMax({df[i].date : i \in DOMAIN df}))
slider_default(vr, df) ==
    IF vr \in {"app", "app_weather", "app_wind"} THEN min_value(df) ELSE max_value(df)

(* The filter line: the index labels of the rows kept.                     *)
filtered_dropping_timed(vr, df, sel) ==
    {i \in DOMAIN df : df[i].date = date_to_datetime(sel)}

filtered(vr, df, sel) ==
    IF vr = "app_wind_static"
    THEN {i \in DOMAIN df : df[i].date = date_to_datetime(sel)}
    ELSE {i \in DOMAIN df : dt_date(df[i].date) = sel}

-----------------------------------------------------------------------------
(* One render: the lines of the script after the filter.                   *)

(* Series.apply calls f on the rows in index order and stops at the first  *)
(* call that raises: the labels whose call was made.                       *)
Applied(f, bad) == IF bad = {} THEN f ELSE {i \in f : i <= SetMin(bad)}

(* The columns the script adds to the copy of the subset, per row.         *)
derived_row(vr, row) ==
    CASE vr = "app_wind" ->
            [color |-> ndvi_color(vr, row.NDVI).value,
             theta |-> radians(row.WindDirection).value,
             end_lon |-> end_lon(row.lon, row.WindSpeed, row.WindDirection).value,
             end_lat |-> end_lat(row.lat, row.WindSpeed, row.WindDirection).value]
      [] vr = "app_wind_icon" ->
            [color |-> ndvi_color(vr, row.NDVI).value, icon_data |-> "arrow"]
      [] vr = "app_wind_text" ->
            [color |-> ndvi_color(vr, row.NDVI).value,
             arrow_char |-> arrow_from_direction(row.WindDirection).value,
             text_size |-> row.WindSpeed * 2 + 10]
      [] vr = "app_wind_static" ->
            [color |-> ndvi_color(vr, row.NDVI).value,
             u |-> quiver_u(row.WindSpeed, row.WindDirection).value,
             v |-> quiver_v(row.WindSpeed, row.WindDirection).value]
      [] OTHER -> [color |-> ndvi_color(vr, row.NDVI).value]

(* The first exception the wind lines raise for a row, "none" if none.     *)
wind_raised(vr, row) ==
    CASE vr = "app_wind" -> end_lon(row.lon, row.WindSpeed, row.WindDirection).raised
      [] vr = "app_wind_static" -> quiver_u(row.WindSpeed, row.WindDirection).raised
      [] OTHER -> "none"

n_layers(vr) == IF vr \in {"app", "app_weather"} THEN 1 ELSE 2
n_describes(vr) == IF vr \in {"app", "app_wind_static"} THEN 1 ELSE 2

(* app and app_weather show the data table before the branch.              *)
table_first(vr) == vr \in {"app", "app_weather"}

no_data_branch(vr, f) ==
    [filtered |-> f, no_data |-> TRUE, error |-> "none", tables |-> IF table_first(vr) THEN 1 ELSE 0,
     classified |-> 0, derived |-> <<>>, layers |-> 0, describes |-> 0]

data_branch(vr, df, f) ==
    LET colorBad == {i \in f : ndvi_color(vr, df[i].NDVI).raised # "none"}
        windBad == {i \in f : wind_raised(vr, df[i]) # "none"}
        aborted(e, n) ==
            [filtered |-> f, no_data |-> FALSE, error |-> e, tables |-> IF table_first(vr) THEN 1 ELSE 0,
             classified |-> n, derived |-> <<>>, layers |-> 0, describes |-> 0]
    IN  IF colorBad # {}
        THEN aborted(ndvi_color(vr, df[SetMin(colorBad)].NDVI).raised, Cardinality(Applied(f, colorBad)))
        ELSE IF windBad # {}
        THEN aborted(wind_raised(vr, df[SetMin(windBad)]), Cardinality(f))
        ELSE [filtered |-> f, no_data |-> FALSE, error |-> "none", tables |-> 1,
              classified |-> Cardinality(f),
              derived |-> [i \in f |-> derived_row(vr, df[i])],
              layers |-> n_layers(vr), describes |-> n_describes(vr)]

render_unguarded(vr, df, sel) == data_branch(vr, df, filtered(vr, df, sel))

(* if not filtered.empty: ... else: st.write("No data available ...")      *)
render(vr, df, sel) ==
    IF filtered(vr, df, sel) = {}
    THEN no_data_branch(vr, filtered(vr, df, sel))
    ELSE data_branch(vr, df, filtered(vr, df, sel))

-----------------------------------------------------------------------------
(* The dashboard process: script runs.                                     *)

NoOut ==
    [filtered |-> {}, no_data |-> FALSE, error |-> "none", tables |-> 0,
     classified |-> 0, derived |-> <<>>, layers |-> 0, describes |-> 0]

NoCall == [fn |-> "none"]

Init ==
    /\ variant \in Variants
    /\ source \in Sources
    /\ cache = <<>>
    /\ loads = 0
    /\ renders = 0
    /\ filterRuns = 0
    /\ selected_date = 0
    /\ out = NoOut
    /\ call = NoCall

(* df of the run that is about to happen.                                  *)
current_df == script_df(variant, cache_data(cache, variant, source).frame)

(* One run of the script from top to bottom with the slider at sel.        *)
ScriptRun(sel) ==
    LET m == cache_data(cache, variant, source)
        df == script_df(variant, m.frame)
    IN  /\ cache' = m.cache
        /\ loads' = loads + m.reads
        /\ renders' = renders + 1
        /\ filterRuns' = filterRuns + 1
        /\ selected_date' = sel
        /\ out' = render(variant, df, sel)
        /\ UNCHANGED <<variant, source, call>>

(* The first run: the slider returns its default value.                    *)
FirstRun ==
    /\ renders = 0
    /\ ScriptRun(slider_default(variant, current_df))

(* The user moves the slider to a date of its range: the script reruns.    *)
SelectDate(d) ==
    /\ renders > 0
    /\ renders < MaxRenders
    /\ d >= min_value(current_df)
    /\ d <= max_value(current_df)
    /\ ScriptRun(d)

Next ==
    \/ FirstRun
    \/ \E d \in 1..MaxDay : SelectDate(d)

Spec == Init /\ [][Next]_vars

-----------------------------------------------------------------------------
(* The pure functions called directly, on arguments of bounded sets: one   *)
(* behaviour is one call.                                                  *)

SpecialArgs == {NaN, Inf(1), Inf(0 - 1), Str, None}
NdviArgs == {Num(x) : x \in (0 - MaxNdvi)..MaxNdvi} \cup SpecialArgs
DirArgs == {Num(x) : x \in (0 - MaxDir * DegScale)..(MaxDir * DegScale)} \cup SpecialArgs

(* Bearings of the 22.5 degree grid, where SinTable is exact to 1/1000.    *)
GridStep == (45 * DegScale) \div 2
GridArgs == {Num(k * GridStep) : k \in (0 - (MaxDir * DegScale) \div GridStep)..((MaxDir * DegScale) \div GridStep)}

(* Cells of a WindDirection column after read_csv; a column holds numbers  *)
(* and NaN, or text and NaN.                                               *)
ColumnArgs == {Num(0), Num((45 * DegScale) \div 2), Num(0 - DegScale), Num((675 * DegScale) \div 2), NaN, Str}

InitPure ==
    /\ variant = "app"
    /\ source = [i \in 1..1 |-> [date |-> <<1, 0>>, NDVI |-> Num((7 * NdviScale) \div 10), WindSpeed |-> 10,
                                   WindDirection |-> Num(90 * DegScale), lat |-> 476000000, lon |-> 129700000,
                                   NDWI |-> Num(NdviScale \div 5), EVI |-> Num(NdviScale \div 2)]]
    /\ cache = <<>>
    /\ loads = 0
    /\ renders = 0
    /\ filterRuns = 0
    /\ selected_date = 0
    /\ out = NoOut
    /\ call = NoCall

CallNdviColor(vr, n) ==
    /\ call = NoCall
    /\ call' = [fn |-> "ndvi_color", variant |-> vr, arg |-> n, ret |-> ndvi_color(vr, n)]
    /\ UNCHANGED <<variant, source, cache, loads, renders, filterRuns, selected_date, out>>

CallArrow(d) ==
    /\ call = NoCall
    /\ call' = [fn |-> "arrow_from_direction", arg |-> d, ret |-> arrow_from_direction(d)]
    /\ UNCHANGED <<variant, source, cache, loads, renders, filterRuns, selected_date, out>>

(* The wind line of app_wind from a point (lon, lat).                      *)
CallWindLine(lon, lat, speed, d) ==
    /\ call = NoCall
    /\ call' = [fn |-> "wind_line", lon |-> lon, lat |-> lat, speed |-> speed, arg |-> d,
                end_lon |-> end_lon(lon, speed, d), end_lat |-> end_lat(lat, speed, d)]
    /\ UNCHANGED <<variant, source, cache, loads, renders, filterRuns, selected_date, out>>

(* filtered['WindDirection'].apply(arrow_from_direction): the calls are    *)
(* made in row order, the first one that raises aborts the column.         *)
apply_arrow(column) ==
    LET bad == {i \in DOMAIN column : arrow_from_direction(column[i]).raised # "none"}
    IN  IF bad # {} THEN Raise(arrow_from_direction(column[SetMin(bad)]).raised)
        ELSE Ok([i \in DOMAIN column |-> arrow_from_direction(column[i]).value])

CallApplyArrow(column) ==
    /\ call = NoCall
    /\ call' = [fn |-> "apply_arrow", arg |-> column, ret |-> apply_arrow(column)]
    /\ UNCHANGED <<variant, source, cache, loads, renders, filterRuns, selected_date, out>>

(* The quiver arrow of app_wind_static.                                    *)
CallQuiver(speed, d) ==
    /\ call = NoCall
    /\ call' = [fn |-> "quiver", speed |-> speed, arg |-> d,
                u |-> quiver_u(speed, d), v |-> quiver_v(speed, d)]
    /\ UNCHANGED <<variant, source, cache, loads, renders, filterRuns, selected_date, out>>

(* get_aoi of app_alphaearth.  The text of the AOI box is "" (nothing      *)
(* entered), blanks, text that is no JSON, JSON that is no GeoJSON          *)
(* geometry (null, a number, a Feature), or a GeoJSON geometry.             *)
(* Coordinates are [lng, lat] in 1/100 degree.                              *)
Box(x0, y0, x1, y1) ==
    [type |-> "Polygon", coordinates |-> <<<<x0, y0>>, <<x0, y1>>, <<x1, y1>>, <<x1, y0>>, <<x0, y0>>>>]

UserGeometries ==
    {Box(x0, 4755, x1, 4765) : x0 \in {1290, 1295}, x1 \in {1305, 1310}}
        \cup {[type |-> "Point", coordinates |-> <<1300, 4760>>]}

AoiTexts ==
    {[kind |-> k, geo |-> <<>>] : k \in {"empty", "blank", "not_json", "json_null", "json_number", "json_feature"}}
        \cup {[kind |-> "geometry", geo |-> g] : g \in UserGeometries}

(* if geojson_str: a str is falsy only when it is "".                      *)
truthy(text) == text.kind # "empty"

(* json.loads: raises JSONDecodeError on text that is no JSON document.    *)
json_loads(text) ==
    IF text.kind \in {"empty", "blank", "not_json"} THEN Raise("JSONDecodeError")
    ELSE Ok(text)

(* ee.Geometry(geo): raises EEException unless geo is a GeoJSON geometry.  *)
ee_Geometry(geo) ==
    IF geo.kind = "geometry" THEN Ok(geo.geo) ELSE Raise("EEException")

(* ee.Geometry.Polygon([default_coords])                                   *)
default_aoi == Box(1295, 4755, 1305, 4765)

get_aoi_untested(geojson_str) ==
    IF json_loads(geojson_str).raised # "none" \/ ee_Geometry(geojson_str).raised # "none"
    THEN [raised |-> "none", value |-> default_aoi, warnings |-> 1]
    ELSE [raised |-> "none", value |-> ee_Geometry(geojson_str).value, warnings |-> 0]

get_aoi(geojson_str) ==
    IF truthy(geojson_str)
    THEN LET geo == json_loads(geojson_str)
         IN  IF geo.raised # "none"
             THEN [raised |-> "none", value |-> default_aoi, warnings |-> 1]
             ELSE LET g == ee_Geometry(geo.value)
                  IN  IF g.raised # "none"
                      THEN [raised |-> "none", value |-> default_aoi, warnings |-> 1]
                      ELSE [raised |-> "none", value |-> g.value, warnings |-> 0]
    ELSE [raised |-> "none", value |-> default_aoi, warnings |-> 0]

CallGetAoi(text) ==
    /\ call = NoCall
    /\ call' = [fn |-> "get_aoi", arg |-> text, ret |-> get_aoi(text)]
    /\ UNCHANGED <<variant, source, cache, loads, renders, filterRuns, selected_date, out>>

NextPure ==
    \/ \E vr \in Variants, n \in NdviArgs : CallNdviColor(vr, n)
    \/ \E d \in DirArgs : CallArrow(d)
    \/ \E n \in 1..MaxRows : \E column \in [1..n -> ColumnArgs] :
            /\ \A i \in 1..n : column[i] = InferCell(column[i], {column[j] : j \in 1..n})
            /\ CallApplyArrow(column)
    \/ \E speed \in 0..MaxSpeed, d \in GridArgs \cup {NaN} : CallWindLine(129700000, 476000000, speed, d)
    \/ \E speed \in 0..MaxSpeed, d \in GridArgs \cup {NaN} : CallQuiver(speed, d)
    \/ \E text \in AoiTexts : CallGetAoi(text)

SpecPure == InitPure /\ [][NextPure]_vars

-----------------------------------------------------------------------------
(* Properties of ndvi_color (SpecPure).                                    *)

IsNdviCall == call.fn = "ndvi_color"

(* C1: in every script, ndvi_color gives the Healthy colour (green) to     *)
(* every number x > 0.6, the Moderate colour (orange) to 0.4 < x <= 0.6    *)
(* and the Stressed colour (red) to x <= 0.4, also outside [-1, 1]; 0.6    *)
(* itself is Moderate and 0.4 itself is Stressed.                          *)
C1_Thresholds ==
    (IsNdviCall /\ call.arg.kind = "num") =>
        /\ call.ret.raised = "none"
        /\ (10 * call.arg.v > 6 * NdviScale) => call.ret.value = green(call.variant)
        /\ (10 * call.arg.v > 4 * NdviScale /\ 10 * call.arg.v <= 6 * NdviScale)
                => call.ret.value = orange(call.variant)
        /\ (10 * call.arg.v <= 4 * NdviScale) => call.ret.value = red(call.variant)

C1_Witness ==
    /\ IsNdviCall
    /\ call.variant = "app_wind_static"
    /\ call.arg = Num((6 * NdviScale) \div 10)
    /\ call.ret = Ok(orange("app_wind_static"))

(* The 0-255 channels matplotlib draws for an RGB tuple of floats, to the  *)
(* nearest integer; pydeck colours are 0-255 channels already.             *)
channels255(vr, c) ==
    IF vr = "app_wind_static"
    THEN [i \in 1..3 |-> (2 * 255 * c[i] + ColorScale) \div (2 * ColorScale)]
    ELSE c

(* C2: whichever script renders it, Healthy is drawn as RGB (0,128,0),     *)
(* Moderate as (255,165,0) and Stressed as (255,0,0) on the 0-255 scale.   *)
C2_FixedColors ==
    (IsNdviCall /\ call.arg.kind = "num") =>
        /\ call.ret.raised = "none"
        /\ channels255(call.variant, call.ret.value) =
                IF 10 * call.arg.v > 6 * NdviScale THEN <<0, 128, 0>>
                ELSE IF 10 * call.arg.v > 4 * NdviScale THEN <<255, 165, 0>>
                ELSE <<255, 0, 0>>

(* C6: a missing, NaN or non-numeric vegetation index is classified as     *)
(* Stressed (red) and ndvi_color never raises.                             *)
C6_MalformedIsStressed ==
    (IsNdviCall /\ call.arg.kind \in {"nan", "str", "none"}) =>
        call.ret = Ok(red(call.variant))

-----------------------------------------------------------------------------
(* Properties of the wind line of app_wind (SpecPure).                     *)

IsWindLine == call.fn = "wind_line" /\ call.arg.kind = "num"

(* Offsets of the line's end point and the line's full length, in units    *)
(* of 1/(10000 TrigScale) degree; the bearing reduced to [0, 360).         *)
LineDx == call.end_lon.value.v - call.lon
LineDy == call.end_lat.value.v - call.lat
LineLength == call.speed * scale * TrigScale
Bearing == call.arg.v % (360 * DegScale)

(* C7: the wind line of app_wind goes from (lon, lat) to (lon + speed *    *)
(* scale * sin(bearing), lat + speed * scale * cos(bearing)): bearing 0    *)
(* is pure north (0, +speed*scale), 90 pure east (+speed*scale, 0), 180    *)
(* pure south, 270 pure west; in between the signs follow the compass.     *)
C7_MapOffset ==
    IsWindLine =>
        /\ call.end_lon.raised = "none" /\ call.end_lat.raised = "none"
        /\ Bearing = 0 => (LineDx = 0 /\ LineDy = LineLength)
        /\ Bearing = 90 * DegScale => (LineDx = LineLength /\ LineDy = 0)
        /\ Bearing = 180 * DegScale => (LineDx = 0 /\ LineDy = 0 - LineLength)
        /\ Bearing = 270 * DegScale => (LineDx = 0 - LineLength /\ LineDy = 0)
        /\ Bearing = 45 * DegScale => (LineDx = LineDy /\ LineDx * 10 >= LineLength * 7)
        /\ (Bearing > 0 /\ Bearing < 180 * DegScale /\ call.speed > 0) => LineDx > 0
        /\ (Bearing > 180 * DegScale /\ call.speed > 0) => LineDx < 0
        /\ ((Bearing < 90 * DegScale \/ Bearing > 270 * DegScale) /\ call.speed > 0) => LineDy > 0
        /\ (Bearing > 90 * DegScale /\ Bearing < 270 * DegScale /\ call.speed > 0) => LineDy < 0

C7_Witness ==
    /\ IsWindLine
    /\ call.speed = 10
    /\ call.arg = Num(90 * DegScale)
    /\ LineDx = 10 * scale * TrigScale
    /\ LineDy = 0

-----------------------------------------------------------------------------
(* Properties of arrow_from_direction (SpecPure).                          *)

IsArrowCall == call.fn = "arrow_from_direction"

(* round(x / (45 DegScale)) with halves rounded up: floor(x/45 + 1/2).     *)
RoundHalfUp45(x) == (2 * x + 45 * DegScale) \div (90 * DegScale)

(* Python's round(x / (45 DegScale)): halves go to the even integer.       *)
PyRound45(x) ==
    LET q == x \div (45 * DegScale)
        r == x % (45 * DegScale)
    IN  IF 2 * r < 45 * DegScale THEN q
        ELSE IF 2 * r > 45 * DegScale THEN q + 1
        ELSE IF q % 2 = 0 THEN q ELSE q + 1

(* C8 as amended: for every numeric direction d, negative or beyond 360    *)
(* included, the glyph is dirs[floor(d/45 + 1/2) mod 8], the rounding      *)
(* taking halves up; arrow(0) = arrow(360) = up, arrow(45) = up-right,     *)
(* arrow(22.5) = up-right and arrow(337.5) = up.                           *)
C8_RoundHalfUp ==
    (IsArrowCall /\ call.arg.kind = "num") =>
        /\ call.ret = Ok(dirs[(RoundHalfUp45(call.arg.v) % 8) + 1])
        /\ call.arg.v \in {0, 360 * DegScale} => call.ret.value = "up"
        /\ call.arg.v = 45 * DegScale => call.ret.value = "up-right"
        /\ 2 * call.arg.v = 45 * DegScale => call.ret.value = "up-right"
        /\ 2 * call.arg.v = 675 * DegScale => call.ret.value = "up"

C8_Witness ==
    /\ IsArrowCall
    /\ 2 * call.arg.v = 45 * DegScale
    /\ call.ret = Ok("up-right")

(* C8 as stated: the glyph is dirs[round(d/45) mod 8], round being         *)
(* Python's round.                                                         *)
C8_PythonRound ==
    (IsArrowCall /\ call.arg.kind = "num") =>
        call.ret = Ok(dirs[(PyRound45(call.arg.v) % 8) + 1])

Glyphs == {dirs[i] : i \in DOMAIN dirs}

(* C9: arrow_from_direction never raises: a missing, NaN, infinite or      *)
(* non-numeric direction gives the empty string, every number gives one    *)
(* of the 8 glyphs, and the glyph column of a subset gets a value for      *)
(* every row.                                                              *)
C9_Total ==
    /\ IsArrowCall =>
            /\ call.ret.raised = "none"
            /\ call.arg.kind = "num" => call.ret.value \in Glyphs
            /\ call.arg.kind # "num" => call.ret.value = ""
    /\ call.fn = "apply_arrow" =>
            /\ call.ret.raised = "none"
            /\ DOMAIN call.ret.value = DOMAIN call.arg
            /\ \A i \in DOMAIN call.arg :
                    call.ret.value[i] = IF call.arg[i].kind = "num"
                                        THEN dirs[(RoundHalfUp45(call.arg[i].v) % 8) + 1] ELSE ""

C9_Witness ==
    /\ call.fn = "apply_arrow"
    /\ call.arg = <<NaN, Num(0)>>
    /\ call.ret = Ok(<<"", "up">>)

-----------------------------------------------------------------------------
(* Properties of the renders (Spec).                                       *)

(* The calendar day written in the file for row i.                         *)
DayOf(i) == source[i].date[1]

(* C3: the subset of a render is exactly the rows whose calendar date is   *)
(* the selected date, whatever their time of day.                          *)
C3_FilterByDate ==
    renders > 0 => out.filtered = {i \in DOMAIN source : DayOf(i) = selected_date}

(* C4: filtering on each distinct date of the dataset partitions it:       *)
(* every row is in the subset of exactly one date.                         *)
C4_Partition ==
    renders > 0 => \A i \in DOMAIN source :
        Cardinality({d \in {DayOf(j) : j \in DOMAIN source} : i \in filtered(variant, current_df, d)}) = 1

(* C5: a render whose subset is empty raises nothing, shows the "no data"  *)
(* message, and classifies nothing, computes no wind column, draws no      *)
(* layer and calls no describe().                                          *)
C5_EmptySubset ==
    (renders > 0 /\ out.filtered = {}) =>
        /\ out.error = "none"
        /\ out.no_data
        /\ out.classified = 0
        /\ out.derived = <<>>
        /\ out.layers = 0
        /\ out.describes = 0

C5_Witness ==
    /\ variant = "app_wind"
    /\ renders > 1
    /\ out.filtered = {}
    /\ out.no_data
    /\ \A i \in DOMAIN source : DayOf(i) # selected_date

(* C10: the dataset is read at the first render and never again, the       *)
(* memoized frame is never replaced, and every render evaluates the        *)
(* filter anew.                                                            *)
C10_LoadOnce ==
    [][/\ loads' = 1
       /\ cache' # <<>>
       /\ cache # <<>> => (cache' = cache /\ loads' = loads)
       /\ filterRuns' = renders'
       /\ out'.filtered = filtered(variant, script_df(variant, cache'[1]), selected_date')]_vars

C10_Witness ==
    /\ renders = 2
    /\ loads = 1
    /\ filterRuns = 2
    /\ out.filtered # {}
    /\ selected_date # slider_default(variant, current_df)

-----------------------------------------------------------------------------
(* Properties of get_aoi (SpecPure).                                       *)

IsAoiCall == call.fn = "get_aoi"

(* C11: get_aoi never raises; it returns the default Koenigssee box        *)
(* (12.95-13.05 E, 47.55-47.65 N) when the text is empty, without a        *)
(* warning, and when the text is no JSON or no geometry, with one warning; *)
(* it returns the user's geometry, without a warning, when the text is a   *)
(* valid geometry, and anything other than the default box only then.      *)
C11_DefaultAoi ==
    IsAoiCall =>
        /\ call.ret.raised = "none"
        /\ call.arg.kind = "empty" => (call.ret.value = default_aoi /\ call.ret.warnings = 0)
        /\ call.arg.kind \notin {"empty", "geometry"} =>
                (call.ret.value = default_aoi /\ call.ret.warnings = 1)
        /\ call.arg.kind = "geometry" => (call.ret.value = call.arg.geo /\ call.ret.warnings = 0)
        /\ call.ret.value # default_aoi => call.arg.kind = "geometry"
        /\ call.arg.kind # "geometry" =>
                /\ call.ret.value.type = "Polygon"
                /\ {call.ret.value.coordinates[i][1] : i \in 1..5} = {1295, 1305}
                /\ {call.ret.value.coordinates[i][2] : i \in 1..5} = {4755, 4765}

C11_Witness ==
    /\ IsAoiCall
    /\ call.arg.kind = "json_feature"
    /\ call.ret = [raised |-> "none", value |-> default_aoi, warnings |-> 1]

-----------------------------------------------------------------------------
(* Properties of the quiver arrow of app_wind_static (SpecPure).           *)

IsQuiver == call.fn = "quiver" /\ call.arg.kind = "num"

(* The offset app_wind draws for the same speed and bearing, from (0, 0).  *)
MapDx == end_lon(0, call.speed, call.arg).value.v
MapDy == end_lat(0, call.speed, call.arg).value.v
QuiverU == call.u.value.v
QuiverV == call.v.value.v
QuiverBearing == call.arg.v % (360 * DegScale)

(* Two arrows point the same way: parallel and not opposite.               *)
SameOrientation ==
    /\ QuiverU * MapDy - QuiverV * MapDx = 0
    /\ QuiverU * MapDx + QuiverV * MapDy > 0

(* C12: the quiver arrow (u, v) = (speed cos, speed sin) is the scale-1    *)
(* map offset with its components swapped, u = dy and v = dx; bearing 0    *)
(* is drawn along +longitude, bearing 90 along +latitude; for a speed > 0  *)
(* the two scripts draw the same orientation exactly when sin(bearing) =   *)
(* cos(bearing), i.e. at 45 and 225 degrees.                               *)
C12_QuiverSwapped ==
    IsQuiver =>
        /\ call.u.raised = "none" /\ call.v.raised = "none"
        /\ QuiverU * scale = MapDy
        /\ QuiverV * scale = MapDx
        /\ QuiverBearing = 0 => (QuiverU = call.speed * TrigScale /\ QuiverV = 0)
        /\ QuiverBearing = 90 * DegScale => (QuiverU = 0 /\ QuiverV = call.speed * TrigScale)
        /\ call.speed > 0 =>
                (SameOrientation <=> QuiverBearing \in {45 * DegScale, 225 * DegScale})

C12_Witness ==
    /\ IsQuiver
    /\ call.speed = 10
    /\ call.arg = Num(0)
    /\ QuiverU = 10 * TrigScale
    /\ QuiverV = 0
    /\ MapDx = 0
    /\ MapDy = 10 * scale * TrigScale
    /\ ~SameOrientation

-----------------------------------------------------------------------------
(* Statelessness of the renders (Spec).                                    *)

(* The frame as load_data returns it in a fresh process, and the df the    *)
(* script derives from it.                                                 *)
LoadedFrame == load_data(variant, source)
FreshDf == script_df(variant, LoadedFrame)

(* C13: renders leave the loaded observations as loaded: the memoized      *)
(* frame keeps its rows, its columns (no derived column is added to it)    *)
(* and its lat, lon, NDVI, NDWI and EVI values; and after any sequence of  *)
(* date selections the output for the selected date is the output a fresh  *)
(* process gives when it renders that date first.                          *)
C13_Stateless ==
    renders > 0 =>
        /\ DOMAIN cache[1] = DOMAIN source
        /\ \A i \in DOMAIN source :
                /\ DOMAIN cache[1][i] = DOMAIN source[i]
                /\ cache[1][i] = LoadedFrame[i]
                /\ cache[1][i].lat = source[i].lat
                /\ cache[1][i].lon = source[i].lon
                /\ cache[1][i].NDVI = read_csv(source)[i].NDVI
                /\ cache[1][i].NDWI = source[i].NDWI
                /\ cache[1][i].EVI = source[i].EVI
        /\ out = render(variant, FreshDf, selected_date)

C13_Witness ==
    /\ variant = "app_wind_text"
    /\ renders = 2
    /\ selected_date # slider_default(variant, FreshDf)
    /\ out.error = "none"
    /\ out.derived # <<>>
    /\ \A i \in out.filtered : "arrow_char" \in DOMAIN out.derived[i] /\ "arrow_char" \notin DOMAIN cache[1][i]

-----------------------------------------------------------------------------
(* The first render (Spec).                                                *)

(* C14: the first render, with the slider at its default (the minimum      *)
(* date in app, app_weather and app_wind, the maximum date in the other    *)
(* three), has a non-empty subset and is never the "no data" state; "no    *)
(* data" is shown only after selecting a date of the slider range on       *)
(* which the dataset has no observation.                                   *)
C14_FirstRenderHasData ==
    /\ renders = 1 =>
            /\ selected_date = IF variant \in {"app", "app_weather", "app_wind"}
                                THEN SetMin({DayOf(i) : i \in DOMAIN source})
                                ELSE SetMax({DayOf(i) : i \in DOMAIN source})
            /\ out.filtered # {}
            /\ ~out.no_data
    /\ out.no_data =>
            /\ renders > 1
            /\ selected_date >= SetMin({DayOf(i) : i \in DOMAIN source})
            /\ selected_date <= SetMax({DayOf(i) : i \in DOMAIN source})
            /\ \A i \in DOMAIN source : DayOf(i) # selected_date

=============================================================================
